---------------------------- MODULE Spec2Model ----------------------------
(***************************************************************************)
(* Model of jelly-uidmng (src/src/lib.rs): switching the effective uid/gid *)
(* of a process between root and the invoking user, and running commands   *)
(* and file I/O under a chosen identity, with a fallback through sudo.     *)
(*                                                                         *)
(* The process credentials are one record shared by every thread (the      *)
(* libc wrappers behind nix::unistd::seteuid/setegid apply a change to the *)
(* whole process).  Each thread executes one library call at a time; a     *)
(* wrapper call is split into the steps between which another thread can   *)
(* run: the is_root()/has_root() test, the identity switch, the inner      *)
(* operation and the restore.  change_root() and change_user() themselves  *)
(* are evaluated in one step; the credential calls they issue are kept in  *)
(* the calling thread's trace.                                             *)
(***************************************************************************)
EXTENDS Integers, Sequences, FiniteSets, TLC

VARIABLES
    cred,        \* process credentials: ruid, euid, suid, rgid, egid, sgid
    env,         \* the environment variables SUDO_UID and SUDO_GID
    ALLOW_SUDO,  \* static ALLOW_SUDO: AtomicBool
    fs,          \* the files: path -> file
    th,          \* per thread: the library call in progress
    active,      \* the threads that make library calls
    boot,        \* how the process was started
    names,       \* the file names the calls are made with
    left         \* the number of calls that may still begin, or Unbounded

vars == <<cred, env, ALLOW_SUDO, fs, th, active, boot, names, left>>

---------------------------------------------------------------------------
(* Bounds of the model *)

NumThreads == 2
MaxData == 1
\* the calls made in a run of several threads
MaxCallsMT == 2
Unbounded == 0 - 1

Threads == 1..NumThreads

---------------------------------------------------------------------------
(* Identities *)

\* uid_t, gid_t and u32 are 32 bits wide; a value is kept as two 16-bit limbs
\* <<high, low>> so that the full width is represented
Limb == 2^16
U32(hi, lo) == <<hi, lo>>

\* Uid::from_raw(0) / Gid::from_raw(0); Uid::is_root() compares with it
ROOT == U32(0, 0)

\* u32::MAX, which is also (uid_t)-1 and (gid_t)-1
U32Max == U32(Limb - 1, Limb - 1)

---------------------------------------------------------------------------
(* Strings of the environment: sequences of characters *)

DigitChars == <<"0", "1", "2", "3", "4", "5", "6", "7", "8", "9">>

IsDigit(ch) == \E i \in 1..10 : DigitChars[i] = ch

DigitOf(ch) == (CHOOSE i \in 1..10 : DigitChars[i] = ch) - 1

\* the Err(ParseIntError) / Err(VarError) outcome of reading a hint
ParseErr == U32(0 - 1, 0 - 1)

RECURSIVE ParseDigits(_, _, _)
\* accumulate the digits of s from position i: acc * 10 + digit with
\* checked_mul/checked_add, so a value above u32::MAX is an error, and so is
\* any character that is not a digit
ParseDigits(s, i, acc) ==
    IF i > Len(s) THEN acc
    ELSE IF ~IsDigit(s[i]) THEN ParseErr
    ELSE LET lo == acc[2] * 10 + DigitOf(s[i])
             hi == acc[1] * 10 + (lo \div Limb)
         IN  IF hi >= Limb THEN ParseErr
             ELSE ParseDigits(s, i + 1, U32(hi, lo % Limb))

\* str::parse::<u32>(): empty is an error, one leading "+" is accepted, a lone
\* sign is an error, "-" is not a digit of an unsigned type
ParseU32(s) ==
    IF Len(s) = 0 THEN ParseErr
    ELSE IF s[1] = "+" \/ s[1] = "-"
         THEN IF Len(s) = 1 THEN ParseErr
              ELSE IF s[1] = "+" THEN ParseDigits(s, 2, ROOT)
              ELSE ParseDigits(s, 1, ROOT)
    ELSE ParseDigits(s, 1, ROOT)

\* an environment variable: unset, or set to a string
Unset == [set |-> FALSE, s |-> <<>>]
Var(s) == [set |-> TRUE, s |-> s]

Str0 == <<"0">>
StrUser == <<"1", "0", "0", "0">>
StrPlusGroup == <<"+", "1", "0", "0">>
StrBad == <<"x">>
StrMax == <<"4", "2", "9", "4", "9", "6", "7", "2", "9", "5">>
StrOver == <<"4", "2", "9", "4", "9", "6", "7", "2", "9", "6">>

SudoUidValues == {Unset, Var(Str0), Var(StrUser), Var(StrBad), Var(StrMax), Var(StrOver)}
SudoGidValues == {Unset, Var(Str0), Var(StrPlusGroup), Var(StrBad)}

\* the environments of the modelled runs: every SUDO_UID with the SUDO_GID sudo
\* writes, and every SUDO_GID with the SUDO_UID sudo writes
Envs ==
    {[SUDO_UID |-> u, SUDO_GID |-> Var(StrPlusGroup)] : u \in SudoUidValues}
    \cup {[SUDO_UID |-> Var(StrUser), SUDO_GID |-> g] : g \in SudoGidValues}

\* the invoking user's uid and gid, as sudo writes them into SUDO_UID/SUDO_GID
UserId == ParseU32(StrUser)
GroupId == ParseU32(StrPlusGroup)

---------------------------------------------------------------------------
(* The credential calls of the operating system *)

\* seteuid(uid): EINVAL for (uid_t)-1; permitted when the effective uid is 0
\* or uid is the real, effective or saved uid; EPERM otherwise
Seteuid(c, uid) ==
    IF uid = U32Max THEN [c |-> c, ok |-> FALSE]
    ELSE IF c.euid = ROOT \/ uid \in {c.ruid, c.euid, c.suid}
         THEN [c |-> [c EXCEPT !.euid = uid], ok |-> TRUE]
    ELSE [c |-> c, ok |-> FALSE]

\* setegid(gid): EINVAL for (gid_t)-1; permitted when the effective uid is 0
\* or gid is the real, effective or saved gid; EPERM otherwise
Setegid(c, gid) ==
    IF gid = U32Max THEN [c |-> c, ok |-> FALSE]
    ELSE IF c.euid = ROOT \/ gid \in {c.rgid, c.egid, c.sgid}
         THEN [c |-> [c EXCEPT !.egid = gid], ok |-> TRUE]
    ELSE [c |-> c, ok |-> FALSE]

\* one entry of a thread's trace.  ev is "seteuid" or "setegid" (a credential
\* call with argument arg; ok tells whether it succeeded), "op" (the inner
\* operation run in this process) or "helper" (the inner operation run by the
\* sudo child, as root:root); euid and egid are the effective ids the entry
\* ran under, for a credential call the ids after it
Ev(ev, arg, c, ok) == [ev |-> ev, arg |-> arg, euid |-> c.euid, egid |-> c.egid, ok |-> ok]

\* is_root(): Uid::effective().is_root()
is_root(c) == c.euid = ROOT

\* has_root() of a library that counts the saved uid as root permission
has_root_OrSaved(c) == c.ruid = ROOT \/ c.suid = ROOT

\* has_root(): Uid::current().is_root()
has_root(c) == c.ruid = ROOT

\* the value a switch returns: the credentials after it, Ok or the error, and
\* the credential calls it issued
Switched(c, err, tr) == [c |-> c, ok |-> err = "", err |-> err, tr |-> tr]

\* change_root() issuing setegid(0) before seteuid(0)
change_root_GroupFirst(c) ==
    IF ~has_root(c) THEN Switched(c, "PermissionDenied", <<>>)
    ELSE IF is_root(c) THEN Switched(c, "", <<>>)
    ELSE LET g == Setegid(c, ROOT)
             u == Seteuid(g.c, ROOT)
         IN  IF ~g.ok
             THEN Switched(g.c, "OsError", <<Ev("setegid", ROOT, g.c, FALSE)>>)
             ELSE IF ~u.ok
             THEN Switched(u.c, "OsError", <<Ev("setegid", ROOT, g.c, TRUE),
                                             Ev("seteuid", ROOT, u.c, FALSE)>>)
             ELSE Switched(u.c, "", <<Ev("setegid", ROOT, g.c, TRUE),
                                      Ev("seteuid", ROOT, u.c, TRUE)>>)

\* change_root() without the `if is_root() { return Ok(()) }` shortcut
change_root_NoShortcut(c) ==
    IF ~has_root(c) THEN Switched(c, "PermissionDenied", <<>>)
    ELSE LET u == Seteuid(c, ROOT)
             g == Setegid(u.c, ROOT)
         IN  IF ~u.ok
             THEN Switched(u.c, "OsError", <<Ev("seteuid", ROOT, u.c, FALSE)>>)
             ELSE IF ~g.ok
             THEN Switched(g.c, "OsError", <<Ev("seteuid", ROOT, u.c, TRUE),
                                             Ev("setegid", ROOT, g.c, FALSE)>>)
             ELSE Switched(g.c, "", <<Ev("seteuid", ROOT, u.c, TRUE),
                                      Ev("setegid", ROOT, g.c, TRUE)>>)

\* change_root(): the real uid is tested first, then the effective uid; then
\* seteuid(0) and setegid(0), each returning its error with `?`
change_root(c) ==
    IF ~has_root(c) THEN Switched(c, "PermissionDenied", <<>>)
    ELSE IF is_root(c) THEN Switched(c, "", <<>>)
    ELSE LET u == Seteuid(c, ROOT)
             g == Setegid(u.c, ROOT)
         IN  IF ~u.ok
             THEN Switched(u.c, "OsError", <<Ev("seteuid", ROOT, u.c, FALSE)>>)
             ELSE IF ~g.ok
             THEN Switched(g.c, "OsError", <<Ev("seteuid", ROOT, u.c, TRUE),
                                             Ev("setegid", ROOT, g.c, FALSE)>>)
             ELSE Switched(g.c, "", <<Ev("seteuid", ROOT, u.c, TRUE),
                                      Ev("setegid", ROOT, g.c, TRUE)>>)

\* env::var(name)?.parse::<u32>()?: ParseErr when the variable is unset or
\* does not parse
Hint(v) == IF v.set THEN ParseU32(v.s) ELSE ParseErr

\* change_user() reading SUDO_GID for the uid as well as for the gid
change_user_GidForUid(c, e) ==
    IF ~is_root(c) THEN Switched(c, "", <<>>)
    ELSE LET uid == Hint(e.SUDO_GID)
             gid == Hint(e.SUDO_GID)
         IN  IF uid = ParseErr \/ gid = ParseErr \/ uid = ROOT
             THEN Switched(c, "ConfigError", <<>>)
             ELSE LET g == Setegid(c, gid)
                      u == Seteuid(g.c, uid)
                  IN  IF ~g.ok
                      THEN Switched(g.c, "OsError", <<Ev("setegid", gid, g.c, FALSE)>>)
                      ELSE IF ~u.ok
                      THEN Switched(u.c, "OsError", <<Ev("setegid", gid, g.c, TRUE),
                                                      Ev("seteuid", uid, u.c, FALSE)>>)
                      ELSE Switched(u.c, "", <<Ev("setegid", gid, g.c, TRUE),
                                               Ev("seteuid", uid, u.c, TRUE)>>)

\* change_user() without the test that refuses a SUDO_UID of 0
change_user_NoRootCheck(c, e) ==
    IF ~is_root(c) THEN Switched(c, "", <<>>)
    ELSE LET uid == Hint(e.SUDO_UID)
             gid == Hint(e.SUDO_GID)
         IN  IF uid = ParseErr \/ gid = ParseErr
             THEN Switched(c, "ConfigError", <<>>)
             ELSE LET g == Setegid(c, gid)
                      u == Seteuid(g.c, uid)
                  IN  IF ~g.ok
                      THEN Switched(g.c, "OsError", <<Ev("setegid", gid, g.c, FALSE)>>)
                      ELSE IF ~u.ok
                      THEN Switched(u.c, "OsError", <<Ev("setegid", gid, g.c, TRUE),
                                                      Ev("seteuid", uid, u.c, FALSE)>>)
                      ELSE Switched(u.c, "", <<Ev("setegid", gid, g.c, TRUE),
                                               Ev("seteuid", uid, u.c, TRUE)>>)

\* change_user() that refuses a SUDO_UID of 0 only after setegid(gid)
change_user_LateCheck(c, e) ==
    IF ~is_root(c) THEN Switched(c, "", <<>>)
    ELSE LET uid == Hint(e.SUDO_UID)
             gid == Hint(e.SUDO_GID)
         IN  IF uid = ParseErr \/ gid = ParseErr
             THEN Switched(c, "ConfigError", <<>>)
             ELSE LET g == Setegid(c, gid)
                      u == Seteuid(g.c, uid)
                  IN  IF ~g.ok
                      THEN Switched(g.c, "OsError", <<Ev("setegid", gid, g.c, FALSE)>>)
                      ELSE IF uid = ROOT
                      THEN Switched(g.c, "ConfigError", <<Ev("setegid", gid, g.c, TRUE)>>)
                      ELSE IF ~u.ok
                      THEN Switched(u.c, "OsError", <<Ev("setegid", gid, g.c, TRUE),
                                                      Ev("seteuid", uid, u.c, FALSE)>>)
                      ELSE Switched(u.c, "", <<Ev("setegid", gid, g.c, TRUE),
                                               Ev("seteuid", uid, u.c, TRUE)>>)

\* change_user() that puts the effective gid back when seteuid(uid) fails
change_user_RollsBack(c, e) ==
    IF ~is_root(c) THEN Switched(c, "", <<>>)
    ELSE LET uid == Hint(e.SUDO_UID)
             gid == Hint(e.SUDO_GID)
         IN  IF uid = ParseErr \/ gid = ParseErr \/ uid = ROOT
             THEN Switched(c, "ConfigError", <<>>)
             ELSE LET g == Setegid(c, gid)
                      u == Seteuid(g.c, uid)
                      b == Setegid(u.c, c.egid)
                  IN  IF ~g.ok
                      THEN Switched(g.c, "OsError", <<Ev("setegid", gid, g.c, FALSE)>>)
                      ELSE IF ~u.ok
                      THEN Switched(b.c, "OsError", <<Ev("setegid", gid, g.c, TRUE),
                                                      Ev("seteuid", uid, u.c, FALSE),
                                                      Ev("setegid", c.egid, b.c, b.ok)>>)
                      ELSE Switched(u.c, "", <<Ev("setegid", gid, g.c, TRUE),
                                               Ev("seteuid", uid, u.c, TRUE)>>)

\* change_user(): nothing to do unless the effective uid is 0; then both hints
\* are read and parsed, a SUDO_UID of 0 is refused, and setegid(gid) and
\* seteuid(uid) are called, each returning its error with `?`
change_user(c, e) ==
    IF ~is_root(c) THEN Switched(c, "", <<>>)
    ELSE LET uid == Hint(e.SUDO_UID)
             gid == Hint(e.SUDO_GID)
         IN  IF uid = ParseErr \/ gid = ParseErr \/ uid = ROOT
             THEN Switched(c, "ConfigError", <<>>)
             ELSE LET g == Setegid(c, gid)
                      u == Seteuid(g.c, uid)
                  IN  IF ~g.ok
                      THEN Switched(g.c, "OsError", <<Ev("setegid", gid, g.c, FALSE)>>)
                      ELSE IF ~u.ok
                      THEN Switched(u.c, "OsError", <<Ev("setegid", gid, g.c, TRUE),
                                                      Ev("seteuid", uid, u.c, FALSE)>>)
                      ELSE Switched(u.c, "", <<Ev("setegid", gid, g.c, TRUE),
                                               Ev("seteuid", uid, u.c, TRUE)>>)

---------------------------------------------------------------------------
(* Files *)

\* a file name is the sequence of the words and shell metacharacters it is
\* spelled with: "/tmp/f", and "/tmp/f;true", which is one file name to the
\* kernel and two commands to a shell
NoName == <<>>
PlainName == <<"/tmp/f">>
OddName == <<"/tmp/f", ";", "true">>

\* the files of the model, in a directory every user may create files in
Paths == {PlainName, OddName}

Bytes == {0}

RECURSIVE SeqsUpTo(_)
SeqsUpTo(n) ==
    IF n = 0 THEN {<<>>}
    ELSE LET shorter == SeqsUpTo(n - 1)
         IN  shorter \cup {Append(d, b) : d \in {x \in shorter : Len(x) = n - 1}, b \in Bytes}

Datas == SeqsUpTo(MaxData)

\* a file: its owner, its content, and whether its mode is 700 (after
\* "chmod 700") or the 644 it is created with
NoFile == [exists |-> FALSE, uid |-> ROOT, gid |-> ROOT, data |-> <<>>, private |-> FALSE]
File(uid, gid, data) ==
    [exists |-> TRUE, uid |-> uid, gid |-> gid, data |-> data, private |-> FALSE]

\* the value a library call returns: Ok (with the exit status of a command:
\* success or not, and the bytes read or captured) or Err
NoResult == [tag |-> "None", success |-> FALSE, out |-> <<>>, err |-> ""]
Ok(success, out) == [tag |-> "Ok", success |-> success, out |-> out, err |-> ""]
Err(e) == [tag |-> "Err", success |-> FALSE, out |-> <<>>, err |-> e]

\* what an inner operation yields: the files after it and its result
Done(f, r) == [fs |-> f, res |-> r]

\* root and the owner may write an existing file (mode 644 or 700); anyone
\* may create it
MayWrite(f, path, euid) ==
    f[path].exists => (euid = ROOT \/ f[path].uid = euid)

\* root and the owner may read a file; the others while its mode is 644
MayRead(f, path, euid) ==
    f[path].exists /\ (euid = ROOT \/ f[path].uid = euid \/ ~f[path].private)

\* std::fs::write(filename, data) under the identity (euid, egid): creates the
\* file, owned by that identity, or replaces the content of an existing one
FsWrite(f, path, data, euid, egid) ==
    IF ~MayWrite(f, path, euid) THEN Done(f, Err("IoError"))
    ELSE IF f[path].exists
         THEN Done([f EXCEPT ![path].data = data], Ok(TRUE, <<>>))
    ELSE Done([f EXCEPT ![path] = File(euid, egid, data)], Ok(TRUE, <<>>))

\* std::fs::read(filename) under the effective uid euid
FsRead(f, path, euid) ==
    IF MayRead(f, path, euid) THEN Done(f, Ok(TRUE, f[path].data))
    ELSE Done(f, Err("IoError"))

\* the programs run by the command functions: "touch <path>", "chmod 700
\* <path>", "cat <path>" and a program that is not installed
Programs == {"touch", "chmod", "cat", "nosuchprogram"}

\* the child process of Command::new(program).args([path]).output() run under
\* (euid, egid): Err when the program cannot be spawned, else its Output
Exec(f, prog, path, euid, egid) ==
    IF prog = "touch"
    THEN IF ~MayWrite(f, path, euid) THEN Done(f, Ok(FALSE, <<>>))
         ELSE IF f[path].exists THEN Done(f, Ok(TRUE, <<>>))
         ELSE Done([f EXCEPT ![path] = File(euid, egid, <<>>)], Ok(TRUE, <<>>))
    ELSE IF prog = "chmod"
    THEN IF f[path].exists /\ (euid = ROOT \/ f[path].uid = euid)
         THEN Done([f EXCEPT ![path].private = TRUE], Ok(TRUE, <<>>))
         ELSE Done(f, Ok(FALSE, <<>>))
    ELSE IF prog = "cat"
    THEN IF MayRead(f, path, euid) THEN Done(f, Ok(TRUE, f[path].data))
         ELSE Done(f, Ok(FALSE, <<>>))
    ELSE Done(f, Err("SpawnError"))

\* command(program, args)
command(f, prog, path, c) == Exec(f, prog, path, c.euid, c.egid)

\* what the caller sees of a helper process: whether one was run, whether it
\* was cut short by a fault of its own (sudo refusing, a read error), its exit
\* status and the bytes of its standard output
NotRun == [ran |-> FALSE, fault |-> FALSE, success |-> FALSE, stdout |-> <<>>]
Exited(fault, success, stdout) ==
    [ran |-> TRUE, fault |-> fault, success |-> success, stdout |-> stdout]

\* what a run of the helper yields: the files after it, the result of the
\* library function, and the helper process as seen by it
Helped(f, r, h) == [fs |-> f, res |-> r, helper |-> h]

\* the runs of a helper cut short by a fault after it wrote the first n bytes
\* of sofar to its standard output: the files are untouched and the exit
\* status is failure
Faults(f, sofar) ==
    {Helped(f, NoResult, Exited(TRUE, FALSE, SubSeq(sofar, 1, n))) : n \in 0..Len(sofar)}

\* Command::new("sudo").args([program, args..]).output(): sudo runs the
\* program as root:root and exits with failure when the program does not
\* exist; or it is cut short
Sudo(f, prog, path) ==
    LET r == Exec(f, prog, path, ROOT, ROOT)
        normal == IF r.res.tag = "Err"
                  THEN Helped(f, NoResult, Exited(FALSE, FALSE, <<>>))
                  ELSE Helped(r.fs, NoResult, Exited(FALSE, r.res.success, r.res.out))
    IN  {normal} \cup Faults(f, IF prog = "cat" /\ r.res.tag = "Ok" THEN r.res.out ELSE <<>>)

\* command_sudo(program, args): the Output of the sudo process, in each of
\* the ways it can run
command_sudo(f, prog, path) ==
    {Helped(o.fs, Ok(o.helper.success, o.helper.stdout), o.helper) : o \in Sudo(f, prog, path)}

\* write(filename, data)
write(f, path, data, c) == FsWrite(f, path, data, c.euid, c.egid)

\* read(filename)
read(f, path, c) == FsRead(f, path, c.euid)

\* format!("cat > {}", filename): the command line handed to sh -c, the file
\* name pasted into it as it is spelled
CatCommandLine(path) == <<"cat", ">">> \o path

\* the words of a command line before its first ";"
RECURSIVE FirstCommand(_)
FirstCommand(line) ==
    IF line = <<>> \/ Head(line) = ";" THEN <<>>
    ELSE <<Head(line)>> \o FirstCommand(Tail(line))

\* the command line after its first ";"
RestCommands(line) == SubSeq(line, Len(FirstCommand(line)) + 2, Len(line))

\* the pipe to the standard input of a child: the bytes written into it and
\* whether its writing end is closed
Piped == [data |-> <<>>, closed |-> FALSE]

\* the result of a wait for a child that never exits
Blocked == [tag |-> "Blocked", success |-> FALSE, out |-> <<>>, err |-> ""]

\* sh -c line run by sudo as root:root with stdin on its standard input: the
\* commands of the line run in order ("cat > word" copies the standard input
\* up to its end into the file named word, "true" does nothing), and the exit
\* status is the status of the last one; cat never exits while the pipe it
\* reads is open
RECURSIVE Sh(_, _, _)
Sh(f, line, stdin) ==
    LET c == FirstCommand(line)
        rest == RestCommands(line)
        r == IF Len(c) = 3 /\ c[1] = "cat" /\ c[2] = ">"
             THEN IF ~stdin.closed THEN Done(f, Blocked)
                  ELSE LET w == FsWrite(f, <<c[3]>>, stdin.data, ROOT, ROOT)
                       IN  Done(w.fs, Ok(w.res.tag = "Ok", <<>>))
             ELSE Done(f, Ok(c = <<"true">>, <<>>))
    IN  IF rest = <<>> \/ r.res = Blocked THEN r
        ELSE Sh(r.fs, rest, [data |-> <<>>, closed |-> stdin.closed])

\* what write_sudo makes of the child it waited for
Written(f, o) ==
    IF o.res = Blocked THEN Helped(f, Blocked, NotRun)
    ELSE Helped(o.fs, IF o.res.success THEN Ok(TRUE, <<>>) ELSE Err("IoError"),
                Exited(FALSE, o.res.success, <<>>))

\* write_sudo that waits for the child with the pipe to its stdin still open
write_sudo_StdinOpen(f, path, data) ==
    {Written(f, Sh(f, CatCommandLine(path), [Piped EXCEPT !.data = data]))}

\* write_sudo(filename, data): sudo sh -c "cat > filename" spawned with a
\* piped stdin; stdin.write_all(data), stdin dropped at the end of the
\* `if let`, then child.wait(); Err when the child exits with failure
write_sudo(f, path, data) ==
    LET written == [Piped EXCEPT !.data = data]
        dropped == [written EXCEPT !.closed = TRUE]
    IN  {Written(f, Sh(f, CatCommandLine(path), dropped))}
        \cup {Helped(o.fs, Err("IoError"), o.helper) : o \in Faults(f, <<>>)}

\* read_sudo that returns what the helper printed whatever its exit status
read_sudo_AnyStatus(f, path) ==
    {Helped(o.fs, Ok(TRUE, o.res.out), o.helper) : o \in command_sudo(f, "cat", path)}

\* read_sudo(filename): command_sudo("cat", [filename]); the captured stdout
\* when the child exits with success, Err otherwise
read_sudo(f, path) ==
    {Helped(o.fs, IF o.res.success THEN Ok(TRUE, o.res.out) ELSE Err("IoError"),
            o.helper) : o \in command_sudo(f, "cat", path)}

---------------------------------------------------------------------------
(* The library calls of a thread *)

UserFns == {"command_user", "read_user", "write_user"}
RootFns == {"command_root", "read_root", "write_root"}
TryFns == {"command_try", "read_try", "write_try"}
PlainFns == {"command", "read", "write"}
SudoFns == {"command_sudo", "read_sudo", "write_sudo"}

KindOf(fn) ==
    IF fn \in {"command", "command_sudo", "command_user", "command_root", "command_try"}
    THEN "command"
    ELSE IF fn \in {"read", "read_sudo", "read_user", "read_root", "read_try"}
    THEN "read"
    ELSE "write"

\* the effective identity as a pair
Eff(c) == [euid |-> c.euid, egid |-> c.egid]

\* nothing written by the call before
NotWritten == [some |-> FALSE, data |-> <<>>]

\* a thread between two calls, before its first call
Idle ==
    [pc |-> "done", fn |-> "none", prog |-> "", path |-> NoName, data |-> <<>>,
     pre |-> [euid |-> ROOT, egid |-> ROOT], res |-> NoResult, inner |-> NoResult,
     restore |-> "none", trace |-> <<>>, wrote |-> NotWritten, helper |-> NotRun]

\* what a caller that reads path back knows: the data its call before, a
\* write_root(path, data) that returned Ok, was given
WroteBefore(t, fn, path) ==
    IF /\ fn \in {"read_root", "read_sudo", "read_try"}
       /\ th[t].fn = "write_root" /\ th[t].res.tag = "Ok" /\ th[t].path = path
    THEN [some |-> TRUE, data |-> th[t].data]
    ELSE NotWritten

\* thread t entering fn with its arguments, at label pc
Entered(t, fn, prog, path, data, pc) ==
    [pc |-> pc, fn |-> fn, prog |-> prog, path |-> path, data |-> data,
     pre |-> Eff(cred), res |-> NoResult, inner |-> NoResult,
     restore |-> "none", trace |-> <<>>, wrote |-> WroteBefore(t, fn, path),
     helper |-> NotRun]

\* the arguments a call of fn is made with
ProgsOf(fn) == IF KindOf(fn) = "command" THEN Programs \ {"cat"} ELSE {""}
DatasOf(fn) == IF KindOf(fn) = "write" THEN Datas ELSE {<<>>}

\* the inner operation of thread t run in this process, under the effective
\* identity of the moment
Plain(t) ==
    LET k == KindOf(th[t].fn)
    IN  IF k = "command" THEN command(fs, th[t].prog, th[t].path, cred)
        ELSE IF k = "read" THEN read(fs, th[t].path, cred)
        ELSE write(fs, th[t].path, th[t].data, cred)

\* the inner operation of thread t run through sudo, in each of the ways the
\* helper can run
Helper(t) ==
    LET k == KindOf(th[t].fn)
    IN  IF k = "command" THEN command_sudo(fs, th[t].prog, th[t].path)
        ELSE IF k = "read" THEN read_sudo(fs, th[t].path)
        ELSE write_sudo(fs, th[t].path, th[t].data)

OpEv == Ev("op", ROOT, cred, TRUE)
HelperEv == Ev("helper", ROOT, [euid |-> ROOT, egid |-> ROOT], TRUE)

\* thread t may begin a call
Ready(t) == t \in active /\ th[t].pc = "done" /\ left # 0
Spend == IF left = Unbounded THEN left ELSE left - 1
At(t, pc) == t \in active /\ th[t].pc = pc

\* thread t returns r
Return(t, r) == [th[t] EXCEPT !.pc = "done", !.res = r]

\* a call of one of the wrappers begins
Call(t) ==
    /\ Ready(t)
    /\ \E fn \in UserFns \cup RootFns \cup TryFns, path \in names :
       \E prog \in ProgsOf(fn), data \in DatasOf(fn) :
          th' = [th EXCEPT ![t] =
                    Entered(t, fn, prog, path, data,
                            IF fn \in UserFns THEN "u_check"
                            ELSE IF fn \in RootFns THEN "r_check" ELSE "t_first")]
    /\ UNCHANGED <<cred, env, ALLOW_SUDO, fs, active, boot, names>>
    /\ left' = Spend

\* set_allow_sudo(value)
set_allow_sudo(t) ==
    /\ Ready(t)
    /\ \E value \in BOOLEAN :
          /\ ALLOW_SUDO' = value
          /\ th' = [th EXCEPT ![t] =
                       [Entered(t, "set_allow_sudo", "", NoName, <<>>, "done")
                           EXCEPT !.res = Ok(TRUE, <<>>)]]
    /\ UNCHANGED <<cred, env, fs, active, boot, names>>
    /\ left' = Spend

\* a direct call of change_root()
CallChangeRoot(t) ==
    /\ Ready(t)
    /\ LET sw == change_root(cred)
       IN  /\ cred' = sw.c
           /\ th' = [th EXCEPT ![t] =
                        [Entered(t, "change_root", "", NoName, <<>>, "done")
                            EXCEPT !.res = IF sw.ok THEN Ok(TRUE, <<>>) ELSE Err(sw.err),
                                   !.trace = sw.tr]]
    /\ UNCHANGED <<env, ALLOW_SUDO, fs, active, boot, names>>
    /\ left' = Spend

\* a direct call of change_user()
CallChangeUser(t) ==
    /\ Ready(t)
    /\ LET sw == change_user(cred, env)
       IN  /\ cred' = sw.c
           /\ th' = [th EXCEPT ![t] =
                        [Entered(t, "change_user", "", NoName, <<>>, "done")
                            EXCEPT !.res = IF sw.ok THEN Ok(TRUE, <<>>) ELSE Err(sw.err),
                                   !.trace = sw.tr]]
    /\ UNCHANGED <<env, ALLOW_SUDO, fs, active, boot, names>>
    /\ left' = Spend

\* a direct call of command(), read() or write()
CallPlain(t) ==
    /\ Ready(t)
    /\ \E fn \in PlainFns, path \in names :
       \E prog \in ProgsOf(fn), data \in DatasOf(fn) :
          LET r == IF fn = "command" THEN command(fs, prog, path, cred)
                   ELSE IF fn = "read" THEN read(fs, path, cred)
                   ELSE write(fs, path, data, cred)
          IN  /\ fs' = r.fs
              /\ th' = [th EXCEPT ![t] =
                           [Entered(t, fn, prog, path, data, "done")
                               EXCEPT !.res = r.res, !.trace = <<OpEv>>]]
    /\ UNCHANGED <<cred, env, ALLOW_SUDO, active, boot, names>>
    /\ left' = Spend

\* a direct call of command_sudo(), read_sudo() or write_sudo()
CallSudo(t) ==
    /\ Ready(t)
    /\ \E fn \in SudoFns, path \in names :
       \E prog \in ProgsOf(fn), data \in DatasOf(fn) :
       \E r \in IF fn = "command_sudo" THEN command_sudo(fs, prog, path)
                 ELSE IF fn = "read_sudo" THEN read_sudo(fs, path)
                 ELSE write_sudo(fs, path, data) :
          /\ fs' = r.fs
          /\ th' = [th EXCEPT ![t] =
                       [Entered(t, fn, prog, path, data, "done")
                           EXCEPT !.res = r.res, !.helper = r.helper,
                                  !.trace = <<HelperEv>>]]
    /\ UNCHANGED <<cred, env, ALLOW_SUDO, active, boot, names>>
    /\ left' = Spend

---------------------------------------------------------------------------
(* command_user, read_user, write_user *)

\* `if !is_root()`
UserCheck(t) ==
    /\ At(t, "u_check")
    /\ th' = [th EXCEPT ![t].pc = IF is_root(cred) THEN "u_lower" ELSE "plain"]
    /\ UNCHANGED <<cred, env, ALLOW_SUDO, fs, active, boot, names, left>>

\* the branch of a wrapper that runs the operation with no switch
RunPlain(t) ==
    /\ At(t, "plain")
    /\ LET r == Plain(t)
       IN  /\ fs' = r.fs
           /\ th' = [th EXCEPT ![t] =
                        [Return(t, r.res) EXCEPT !.trace = Append(@, OpEv)]]
    /\ UNCHANGED <<cred, env, ALLOW_SUDO, active, boot, names, left>>

\* the *_user wrappers going on to the operation whatever change_user() returned
UserLower_ErrorDropped(t) ==
    /\ At(t, "u_lower")
    /\ LET sw == change_user(cred, env)
       IN  /\ cred' = sw.c
           /\ th' = [th EXCEPT ![t].pc = "u_run", ![t].trace = @ \o sw.tr]
    /\ UNCHANGED <<env, ALLOW_SUDO, fs, active, boot, names, left>>

\* `change_user()?`
UserLower(t) ==
    /\ At(t, "u_lower")
    /\ LET sw == change_user(cred, env)
       IN  /\ cred' = sw.c
           /\ th' = [th EXCEPT ![t] =
                        IF sw.ok
                        THEN [th[t] EXCEPT !.pc = "u_run", !.trace = @ \o sw.tr]
                        ELSE [Return(t, Err(sw.err)) EXCEPT !.trace = @ \o sw.tr]]
    /\ UNCHANGED <<env, ALLOW_SUDO, fs, active, boot, names, left>>

\* `let result = command(program, args)` (write, read)
UserRun(t) ==
    /\ At(t, "u_run")
    /\ LET r == Plain(t)
       IN  /\ fs' = r.fs
           /\ th' = [th EXCEPT ![t].pc = "u_restore", ![t].inner = r.res,
                               ![t].trace = Append(@, OpEv)]
    /\ UNCHANGED <<cred, env, ALLOW_SUDO, active, boot, names, left>>

\* `change_root()?; result`
UserRestore(t) ==
    /\ At(t, "u_restore")
    /\ LET sw == change_root(cred)
       IN  /\ cred' = sw.c
           /\ th' = [th EXCEPT ![t] =
                        [Return(t, IF sw.ok THEN th[t].inner ELSE Err(sw.err))
                            EXCEPT !.trace = @ \o sw.tr,
                                   !.restore = IF sw.ok THEN "ok" ELSE "err"]]
    /\ UNCHANGED <<env, ALLOW_SUDO, fs, active, boot, names, left>>

---------------------------------------------------------------------------
(* command_root, read_root, write_root *)

\* `if is_root()`
RootCheck(t) ==
    /\ At(t, "r_check")
    /\ th' = [th EXCEPT ![t].pc =
                 IF is_root(cred) THEN "plain"
                 ELSE IF KindOf(th[t].fn) = "command" THEN "c_elevate"
                 ELSE "f_has_root"]
    /\ UNCHANGED <<cred, env, ALLOW_SUDO, fs, active, boot, names, left>>

\* command_root: `if change_root().is_ok()`
CmdElevate(t) ==
    /\ At(t, "c_elevate")
    /\ LET sw == change_root(cred)
       IN  /\ cred' = sw.c
           /\ th' = [th EXCEPT ![t].pc = IF sw.ok THEN "c_run" ELSE "sudo_check",
                               ![t].trace = @ \o sw.tr]
    /\ UNCHANGED <<env, ALLOW_SUDO, fs, active, boot, names, left>>

\* command_root: `let result = command(program, args)`
CmdRun(t) ==
    /\ At(t, "c_run")
    /\ LET r == Plain(t)
       IN  /\ fs' = r.fs
           /\ th' = [th EXCEPT ![t].pc = "c_restore", ![t].inner = r.res,
                               ![t].trace = Append(@, OpEv)]
    /\ UNCHANGED <<cred, env, ALLOW_SUDO, active, boot, names, left>>

\* command_root restoring with change_root(), as read_root and write_root do
CmdRestore_Elevates(t) ==
    /\ At(t, "c_restore")
    /\ LET sw == change_root(cred)
       IN  /\ cred' = sw.c
           /\ th' = [th EXCEPT ![t] =
                        [Return(t, IF sw.ok THEN th[t].inner ELSE Err(sw.err))
                            EXCEPT !.trace = @ \o sw.tr,
                                   !.restore = IF sw.ok THEN "ok" ELSE "err"]]
    /\ UNCHANGED <<env, ALLOW_SUDO, fs, active, boot, names, left>>

\* command_root: `change_user()?; result`
CmdRestore(t) ==
    /\ At(t, "c_restore")
    /\ LET sw == change_user(cred, env)
       IN  /\ cred' = sw.c
           /\ th' = [th EXCEPT ![t] =
                        [Return(t, IF sw.ok THEN th[t].inner ELSE Err(sw.err))
                            EXCEPT !.trace = @ \o sw.tr,
                                   !.restore = IF sw.ok THEN "ok" ELSE "err"]]
    /\ UNCHANGED <<env, ALLOW_SUDO, fs, active, boot, names, left>>

\* read_root, write_root: `if has_root()`
FileHasRoot(t) ==
    /\ At(t, "f_has_root")
    /\ th' = [th EXCEPT ![t].pc = IF has_root(cred) THEN "f_elevate" ELSE "sudo_check"]
    /\ UNCHANGED <<cred, env, ALLOW_SUDO, fs, active, boot, names, left>>

\* read_root, write_root: the first `change_root()?`
FileElevate(t) ==
    /\ At(t, "f_elevate")
    /\ LET sw == change_root(cred)
       IN  /\ cred' = sw.c
           /\ th' = [th EXCEPT ![t] =
                        IF sw.ok
                        THEN [th[t] EXCEPT !.pc = "f_run", !.trace = @ \o sw.tr]
                        ELSE [Return(t, Err(sw.err)) EXCEPT !.trace = @ \o sw.tr]]
    /\ UNCHANGED <<env, ALLOW_SUDO, fs, active, boot, names, left>>

\* read_root, write_root: `let result = write(filename, data)` (read)
FileRun(t) ==
    /\ At(t, "f_run")
    /\ LET r == Plain(t)
       IN  /\ fs' = r.fs
           /\ th' = [th EXCEPT ![t].pc = "f_restore", ![t].inner = r.res,
                               ![t].trace = Append(@, OpEv)]
    /\ UNCHANGED <<cred, env, ALLOW_SUDO, active, boot, names, left>>

\* read_root, write_root: the second `change_root()?; result`
FileRestore(t) ==
    /\ At(t, "f_restore")
    /\ LET sw == change_root(cred)
       IN  /\ cred' = sw.c
           /\ th' = [th EXCEPT ![t] =
                        [Return(t, IF sw.ok THEN th[t].inner ELSE Err(sw.err))
                            EXCEPT !.trace = @ \o sw.tr,
                                   !.restore = IF sw.ok THEN "ok" ELSE "err"]]
    /\ UNCHANGED <<env, ALLOW_SUDO, fs, active, boot, names, left>>

\* allow_sudo() answering true whatever was stored
allow_sudo_Ignored == TRUE

\* allow_sudo(): ALLOW_SUDO.load(SeqCst)
allow_sudo == ALLOW_SUDO

\* `if allow_sudo()` ... `else Err("don't have root permission")`
SudoCheck(t) ==
    /\ At(t, "sudo_check")
    /\ th' = [th EXCEPT ![t] =
                 IF allow_sudo THEN [th[t] EXCEPT !.pc = "sudo_run"]
                 ELSE Return(t, Err("PermissionDenied"))]
    /\ UNCHANGED <<cred, env, ALLOW_SUDO, fs, active, boot, names, left>>

\* `command_sudo(program, args)` (write_sudo, read_sudo) as the fallback
SudoRun(t) ==
    /\ At(t, "sudo_run")
    /\ \E r \in Helper(t) :
          /\ fs' = r.fs
          /\ th' = [th EXCEPT ![t] =
                       [Return(t, r.res) EXCEPT !.helper = r.helper,
                                                !.trace = Append(@, HelperEv)]]
    /\ UNCHANGED <<cred, env, ALLOW_SUDO, active, boot, names, left>>

---------------------------------------------------------------------------
(* command_try, read_try, write_try *)

\* command_try returning at once the error of a program that did not spawn
TryFirst_SpawnFinal(t) ==
    /\ At(t, "t_first")
    /\ LET r == Plain(t)
           good == IF KindOf(th[t].fn) = "command"
                   THEN r.res.tag = "Err" \/ r.res.success
                   ELSE r.res.tag = "Ok"
       IN  /\ fs' = r.fs
           /\ th' = [th EXCEPT ![t] =
                        IF good
                        THEN [Return(t, r.res) EXCEPT !.trace = Append(@, OpEv)]
                        ELSE [th[t] EXCEPT !.pc = "t_check", !.inner = r.res,
                                           !.trace = Append(@, OpEv)]]
    /\ UNCHANGED <<cred, env, ALLOW_SUDO, active, boot, names, left>>

\* the first attempt, under the current identity; command_try returns it when
\* the program ran and exited with success, read_try and write_try when it is Ok
TryFirst(t) ==
    /\ At(t, "t_first")
    /\ LET r == Plain(t)
           good == IF KindOf(th[t].fn) = "command"
                   THEN r.res.tag = "Ok" /\ r.res.success
                   ELSE r.res.tag = "Ok"
       IN  /\ fs' = r.fs
           /\ th' = [th EXCEPT ![t] =
                        IF good
                        THEN [Return(t, r.res) EXCEPT !.trace = Append(@, OpEv)]
                        ELSE [th[t] EXCEPT !.pc = "t_check", !.inner = r.res,
                                           !.trace = Append(@, OpEv)]]
    /\ UNCHANGED <<cred, env, ALLOW_SUDO, active, boot, names, left>>

\* `if !is_root()` then the *_root function, else the first result
TryCheck(t) ==
    /\ At(t, "t_check")
    /\ th' = [th EXCEPT ![t] =
                 IF ~is_root(cred) THEN [th[t] EXCEPT !.pc = "r_check"]
                 ELSE Return(t, th[t].inner)]
    /\ UNCHANGED <<cred, env, ALLOW_SUDO, fs, active, boot, names, left>>

---------------------------------------------------------------------------
(* The process *)

\* started by sudo (every id 0), as a setuid-root binary (effective and saved
\* uid 0, the rest the user's), or by the user with no privilege
BootCred(b) ==
    IF b = "sudo"
    THEN [ruid |-> ROOT, euid |-> ROOT, suid |-> ROOT,
          rgid |-> ROOT, egid |-> ROOT, sgid |-> ROOT]
    ELSE IF b = "setuid"
    THEN [ruid |-> UserId, euid |-> ROOT, suid |-> ROOT,
          rgid |-> GroupId, egid |-> GroupId, sgid |-> GroupId]
    ELSE [ruid |-> UserId, euid |-> UserId, suid |-> UserId,
          rgid |-> GroupId, egid |-> GroupId, sgid |-> GroupId]

Boots == {"sudo", "setuid", "user"}

InitWith(a, n, ns, es) ==
    /\ boot \in Boots
    /\ cred = BootCred(boot)
    /\ env \in es
    /\ ALLOW_SUDO = FALSE
    /\ fs = [p \in Paths |-> NoFile]
    /\ th = [t \in Threads |-> Idle]
    /\ active = a
    /\ names = ns
    /\ left = n

\* one thread makes the calls
Init == InitWith({1}, Unbounded, {PlainName}, Envs)

\* every thread makes calls
InitMT == InitWith(Threads, MaxCallsMT, {PlainName}, Envs)

\* one thread makes the calls, with every file name, under the environment
\* sudo sets for the invoking user
InitNames ==
    InitWith({1}, Unbounded, Paths,
             {[SUDO_UID |-> Var(StrUser), SUDO_GID |-> Var(StrPlusGroup)]})

Step(t) ==
    \/ Call(t)
    \/ set_allow_sudo(t)
    \/ CallChangeRoot(t)
    \/ CallChangeUser(t)
    \/ CallPlain(t)
    \/ CallSudo(t)
    \/ UserCheck(t)
    \/ RunPlain(t)
    \/ UserLower(t)
    \/ UserRun(t)
    \/ UserRestore(t)
    \/ RootCheck(t)
    \/ CmdElevate(t)
    \/ CmdRun(t)
    \/ CmdRestore(t)
    \/ FileHasRoot(t)
    \/ FileElevate(t)
    \/ FileRun(t)
    \/ FileRestore(t)
    \/ SudoCheck(t)
    \/ SudoRun(t)
    \/ TryFirst(t)
    \/ TryCheck(t)

Next == \E t \in Threads : Step(t)

Spec == Init /\ [][Next]_vars

SpecMT == InitMT /\ [][Next]_vars

SpecNames == InitNames /\ [][Next]_vars

---------------------------------------------------------------------------
(* Properties *)

Returned(t) == t \in active /\ th[t].pc = "done" /\ th[t].fn # "none"

\* the entries of a thread's trace that are inner operations run in-process
OpsOf(t) == {i \in 1..Len(th[t].trace) : th[t].trace[i].ev = "op"}

\* the names of the entries of a thread's trace
Shape(t) == [i \in 1..Len(th[t].trace) |-> th[t].trace[i].ev]

\* C1: after read_user, write_user, read_root or write_root has returned with
\* its restore step succeeded, the effective uid and gid are those the call
\* started with -- whatever the inner read or write returned.
C1_FileRestoration ==
    \A t \in Threads :
        (/\ Returned(t)
         /\ th[t].fn \in {"read_user", "write_user", "read_root", "write_root"}
         /\ th[t].restore = "ok")
        => Eff(cred) = th[t].pre

\* C2: command_user entered Elevated lowers, runs, elevates; command_root
\* entered Lowered with real root elevates, runs, lowers; when the restore
\* succeeded the effective uid and gid are those the call started with,
\* whatever the program did.
C2_CommandRestoration ==
    \A t \in Threads :
        (Returned(t) /\ th[t].restore = "ok") =>
            /\ (th[t].fn = "command_user" /\ th[t].pre.euid = ROOT) =>
                  /\ Shape(t) = <<"setegid", "seteuid", "op", "seteuid", "setegid">>
                  /\ \A i \in 1..5 : th[t].trace[i].ok
                  /\ th[t].trace[3].euid # ROOT
                  /\ th[t].trace[4].arg = ROOT /\ th[t].trace[5].arg = ROOT
                  /\ Eff(cred) = th[t].pre
            /\ (th[t].fn = "command_root" /\ th[t].pre.euid # ROOT) =>
                  /\ has_root(cred)
                  /\ Shape(t) = <<"seteuid", "setegid", "op", "setegid", "seteuid">>
                  /\ \A i \in 1..5 : th[t].trace[i].ok
                  /\ th[t].trace[1].arg = ROOT /\ th[t].trace[2].arg = ROOT
                  /\ th[t].trace[3].euid = ROOT
                  /\ Eff(cred) = th[t].pre

\* a command_root call that elevated, could not spawn its program, and restored
C2_Witness ==
    /\ Returned(1)
    /\ th[1].fn = "command_root" /\ th[1].pre.euid # ROOT
    /\ th[1].restore = "ok" /\ th[1].inner.tag = "Err"
    /\ th[1].res = th[1].inner

\* C3: while the threads execute only the *_user and *_root wrappers, the
\* inner operation of command_user, read_user and write_user never runs while
\* the effective uid is 0, the in-process inner operation of command_root,
\* read_root and write_root never runs while it is not 0, and when every
\* thread has returned from a command wrapper entered under the same identity,
\* with its restore succeeded or not needed, that identity is in force again.
C3_CriticalSection ==
    /\ (\A u \in active : th[u].fn \in UserFns \cup RootFns \cup {"none"})
       => \A t \in Threads : \A i \in OpsOf(t) :
             /\ th[t].fn \in UserFns => th[t].trace[i].euid # ROOT
             /\ th[t].fn \in RootFns => th[t].trace[i].euid = ROOT
    /\ (\A t \in active :
           /\ Returned(t)
           /\ th[t].fn \in {"command_user", "command_root"}
           /\ th[t].restore # "err"
           /\ \A u \in active : th[u].pre = th[t].pre)
       => \A t \in active : Eff(cred) = th[t].pre

\* C4: the sudo helper is spawned by command_root, read_root and write_root
\* only while ALLOW_SUDO is true; a call entered Lowered in a process without
\* real root performs the operation through the helper and nothing else when
\* the flag is true, and is refused, with nothing done, when it is false.
C4_FallbackGating ==
    \A t \in Threads :
        /\ At(t, "sudo_run") => ALLOW_SUDO
        /\ (Returned(t) /\ th[t].fn \in RootFns \cup TryFns
              /\ \E i \in 1..Len(th[t].trace) : th[t].trace[i].ev = "helper")
           => ALLOW_SUDO
        /\ (Returned(t) /\ th[t].fn \in RootFns
              /\ th[t].pre.euid # ROOT /\ ~has_root(cred))
           => /\ Eff(cred) = th[t].pre
              /\ IF ALLOW_SUDO
                 THEN th[t].trace = <<HelperEv>> /\ th[t].helper.ran
                 ELSE th[t].trace = <<>> /\ th[t].res = Err("PermissionDenied")

\* a read_root call answered by the helper, with the bytes of a file that
\* exists
C4_Witness ==
    /\ Returned(1) /\ th[1].fn = "read_root" /\ ~has_root(cred)
    /\ th[1].trace = <<HelperEv>>
    /\ th[1].res.tag = "Ok"
    /\ ALLOW_SUDO

\* C5: when the inner operation of command_user, command_root, read_user or
\* write_user succeeded and the restore that follows failed, the call still
\* returns the inner operation's result.
C5_ResultSurvivesRestoreFailure ==
    \A t \in Threads :
        (/\ Returned(t)
         /\ th[t].fn \in {"command_user", "command_root", "read_user", "write_user"}
         /\ th[t].restore = "err"
         /\ th[t].inner.tag = "Ok")
        => th[t].res = th[t].inner

\* C6: the effective uid is 0 only in a process whose real uid is 0 or that
\* started with effective uid 0; a process started without privilege never
\* becomes root; and every step from effective uid 0 to another leads to the
\* uid and gid that SUDO_UID and SUDO_GID hold at that step.
C6_NoEscalation ==
    [][/\ is_root(cred') => (has_root(cred') \/ is_root(BootCred(boot)))
       /\ boot = "user" => ~is_root(cred')
       /\ (is_root(cred) /\ ~is_root(cred'))
          => /\ env.SUDO_UID.set /\ env.SUDO_GID.set
             /\ cred'.euid = ParseU32(env.SUDO_UID.s)
             /\ cred'.egid = ParseU32(env.SUDO_GID.s)]_vars

\* the process has gone from root to the identity of the hints
C6_Witness ==
    /\ boot = "sudo" /\ ~is_root(cred)
    /\ cred.euid = UserId /\ cred.egid = GroupId
    /\ Returned(1) /\ th[1].fn = "command_root" /\ th[1].restore = "ok"

\* C7: in a call that succeeded, the inner operation of command_root and
\* write_root runs with effective uid 0 and gid 0 (or in the helper), and the
\* inner operation of command_user and write_user with effective uid and gid
\* both other than 0.
C7_WorkIdentity ==
    \A t \in Threads :
        (Returned(t) /\ th[t].res.tag = "Ok" /\ th[t].res.success) =>
            \A i \in OpsOf(t) :
                /\ th[t].fn \in {"command_root", "write_root"}
                   => th[t].trace[i].euid = ROOT /\ th[t].trace[i].egid = ROOT
                /\ th[t].fn \in {"command_user", "write_user"}
                   => th[t].trace[i].euid # ROOT /\ th[t].trace[i].egid # ROOT

\* C8: change_root() called with effective uid 0 succeeds and changes nothing,
\* whatever the real uid; it is refused only when neither the effective nor
\* the real uid is 0.
C8_ElevatedIsNoop ==
    \A t \in Threads :
        (Returned(t) /\ th[t].fn = "change_root") =>
            /\ th[t].pre.euid = ROOT
               => th[t].res.tag = "Ok" /\ th[t].trace = <<>> /\ Eff(cred) = th[t].pre
            /\ th[t].res = Err("PermissionDenied")
               => th[t].pre.euid # ROOT /\ ~has_root(cred)

\* the environments whose hints are both present, numeric and not root
GoodHints ==
    /\ env.SUDO_UID \in {Var(StrUser), Var(StrMax)}
    /\ env.SUDO_GID \in {Var(StrPlusGroup)}

\* C9: in a process with real uid 0, change_user() called Elevated succeeds
\* exactly when both hints are present, numeric and not root, and then the
\* effective uid and gid are the parsed hints; change_root() then succeeds
\* and leaves effective uid 0 and gid 0.
C9_LowerIffHints ==
    \A t \in Threads :
        (Returned(t) /\ has_root(cred)) =>
            /\ (th[t].fn = "change_user" /\ th[t].pre.euid = ROOT) =>
                  /\ th[t].res.tag = "Ok" <=> GoodHints
                  /\ th[t].res.tag = "Ok" =>
                        /\ cred.euid = ParseU32(env.SUDO_UID.s)
                        /\ cred.egid = ParseU32(env.SUDO_GID.s)
            /\ (th[t].fn = "change_root" /\ th[t].pre.euid # ROOT) =>
                  /\ th[t].res.tag = "Ok"
                  /\ cred.euid = ROOT /\ cred.egid = ROOT

\* the environments in which SUDO_UID is 0, or a hint is absent or malformed
BadHints ==
    \/ env.SUDO_UID \in {Unset, Var(Str0), Var(StrBad), Var(StrOver)}
    \/ env.SUDO_GID \in {Unset, Var(StrBad)}

\* C10 as stated: with SUDO_UID 0, or a hint absent or malformed, change_user()
\* returns a configuration error from every identity state.
C10_ConfigErrorAlways ==
    \A t \in Threads :
        (Returned(t) /\ th[t].fn = "change_user" /\ BadHints)
        => th[t].res = Err("ConfigError")

\* C10 as amended: with SUDO_UID 0, or a hint absent or malformed, change_user()
\* called while the effective uid is 0 returns a configuration error and
\* issues no credential call; called while the effective uid is not 0 it
\* returns Ok without reading the hints.  Either way the identity is unchanged.
C10_ConfigErrorWhenElevated ==
    \A t \in Threads :
        (Returned(t) /\ th[t].fn = "change_user" /\ BadHints) =>
            /\ th[t].res = IF th[t].pre.euid = ROOT THEN Err("ConfigError")
                           ELSE Ok(TRUE, <<>>)
            /\ th[t].trace = <<>>
            /\ Eff(cred) = th[t].pre

\* change_user() refused while Elevated because SUDO_UID is 0
C10_Witness ==
    /\ Returned(1) /\ th[1].fn = "change_user"
    /\ th[1].pre.euid = ROOT /\ env.SUDO_UID = Var(Str0)
    /\ th[1].res = Err("ConfigError")

\* thread t, having returned from fn, calls fn again in this step
Again(t, fn) ==
    /\ Returned(t) /\ th[t].fn = fn
    /\ th'[t].pc = "done" /\ th'[t].fn = fn
    /\ th'[t] # th[t]

\* hints that parse, with a SUDO_UID that is neither 0 nor (uid_t)-1
SwitchableHints ==
    /\ env.SUDO_UID = Var(StrUser)
    /\ env.SUDO_GID \in {Var(Str0), Var(StrPlusGroup)}

\* with real root and such hints every change_root() ends Elevated and every
\* change_user() ends Lowered, so alternating them alternates is_root()
Alternates ==
    \A t \in Threads :
        (Returned(t) /\ has_root(cred) /\ SwitchableHints) =>
            /\ th[t].fn = "change_root" => th[t].res.tag = "Ok" /\ is_root(cred)
            /\ th[t].fn = "change_user" => th[t].res.tag = "Ok" /\ ~is_root(cred)

C12_RoundTrip ==
    \A t \in Threads :
        (Returned(t) /\ th[t].wrote.some /\ ~th[t].helper.fault) =>
            th[t].res = Ok(TRUE, th[t].wrote.data)

\* thread t is inside or back from a command_root, read_root or write_root
\* that it began Lowered, in a process with no real root and sudo not allowed
DeniedCall(t) ==
    /\ t \in active /\ th[t].fn \in RootFns
    /\ th[t].pre.euid # ROOT /\ cred.ruid # ROOT /\ ~ALLOW_SUDO

\* C13: command_root, read_root and write_root called while Lowered, with a
\* real uid other than 0 and allow_sudo() false, return the permission error
\* having run nothing (no program, no helper, no credential call), and no step
\* of the call changes a file or the effective uid/gid.
C13_DeniedNoSideEffects ==
    /\ [][\A t \in Threads :
             (DeniedCall(t) /\ th[t].pc # "done") =>
                 (fs' = fs /\ Eff(cred') = Eff(cred))]_vars
    /\ [](\A t \in Threads :
             (DeniedCall(t) /\ Returned(t)) =>
                 /\ th[t].res = Err("PermissionDenied")
                 /\ th[t].trace = <<>>
                 /\ Eff(cred) = th[t].pre)

C13_Witness ==
    /\ DeniedCall(1) /\ Returned(1) /\ th[1].fn = "write_root"
    /\ boot = "setuid" /\ cred.suid = ROOT
    /\ th[1].res = Err("PermissionDenied")
    /\ \A p \in Paths : ~fs[p].exists

\* the entries of a thread's trace that are attempts of the operation: run
\* in-process or through the helper
AttemptsOf(t) == {i \in 1..Len(th[t].trace) : th[t].trace[i].ev \in {"op", "helper"}}

\* the first attempt of a command_try, read_try or write_try succeeded
\* (for command_try: the program ran and exited with success)
FirstSucceeded(t) ==
    /\ th[t].res.tag = "Ok"
    /\ KindOf(th[t].fn) = "command" => th[t].res.success

\* the rules of the single retry but the one on spawn failures
RetryRules ==
    /\ [][\A t \in Threads :
             At(t, "t_check") =>
                 /\ th'[t].pc = "r_check" => ~is_root(cred)
                 /\ th'[t].pc = "done" => (is_root(cred) /\ th'[t].res = th[t].inner)]_vars
    /\ [](\A t \in Threads :
             (Returned(t) /\ th[t].fn \in TryFns) =>
                 /\ Cardinality(AttemptsOf(t)) \in {1, 2}
                 /\ th[t].trace[1] = Ev("op", ROOT, th[t].pre, TRUE)
                 /\ th[t].inner = NoResult =>
                        (FirstSucceeded(t) /\ Len(th[t].trace) = 1)
                 /\ Len(th[t].trace) > 1 =>
                        (th[t].inner # NoResult /\ th[t].pre.euid # ROOT))

\* C14: command_try, read_try and write_try first run the plain operation at
\* the current identity and return its result at once when it succeeded; the
\* *_root variant is tried only after a failed first attempt with an effective
\* uid other than 0, once, so the operation is attempted at most twice; a
\* failure while Elevated is returned as it is; and command_try is not retried
\* after a failure to spawn the program, only after a failure exit status.
C14_SingleRetry ==
    /\ RetryRules
    /\ [][\A t \in Threads :
             (At(t, "t_check") /\ th[t].fn = "command_try" /\ th'[t].pc = "r_check") =>
                 th[t].inner.tag = "Ok"]_vars

\* C14 as the code has it: the same rules, and every failed first attempt with
\* an effective uid other than 0 is retried through the *_root variant: for
\* command_try a failure to spawn the program as well as a failure exit status.
C14_RetryOnAnyFailure ==
    /\ RetryRules
    /\ [][\A t \in Threads :
             (At(t, "t_check") /\ ~is_root(cred)) => th'[t].pc = "r_check"]_vars

C14_Witness ==
    /\ Returned(1) /\ th[1].fn = "command_try" /\ th[1].prog = "nosuchprogram"
    /\ th[1].pre.euid # ROOT /\ th[1].inner = Err("SpawnError")
    /\ Cardinality(AttemptsOf(1)) = 2

\* C15: a read through the helper returns Err whenever the helper exits with
\* failure, whatever it printed, and exactly the captured stdout when it exits
\* with success; a write through the helper never waits for a helper that is
\* still reading its stdin, returns Err whenever the helper exits with
\* failure, and on success the helper has received every byte of data.
C15_HelperStatus ==
    \A t \in Threads :
        (Returned(t) /\ th[t].trace # <<>> /\ th[t].trace[Len(th[t].trace)] = HelperEv) =>
            /\ KindOf(th[t].fn) = "read" =>
                   /\ th[t].helper.ran
                   /\ ~th[t].helper.success => th[t].res.tag = "Err"
                   /\ th[t].helper.success => th[t].res = Ok(TRUE, th[t].helper.stdout)
            /\ KindOf(th[t].fn) = "write" =>
                   /\ th[t].res # Blocked /\ th[t].helper.ran
                   /\ ~th[t].helper.success => th[t].res.tag = "Err"
                   /\ th[t].helper.success =>
                          /\ th[t].res = Ok(TRUE, <<>>)
                          /\ fs[<<th[t].path[1]>>].data = th[t].data

C15_Witness ==
    /\ Returned(1) /\ th[1].fn = "read_sudo"
    /\ th[1].helper.ran /\ ~th[1].helper.success /\ th[1].helper.stdout # <<>>
    /\ th[1].res.tag = "Err"

\* thread t is back from a direct call of fn that issued a credential call
SwitchedBy(t, fn) == Returned(t) /\ th[t].fn = fn /\ th[t].trace # <<>>

\* the credential calls of thread t's call begin with first, followed by
\* second if there are two
InOrder(t, first, second) ==
    \/ Shape(t) = <<first>> /\ ~th[t].trace[1].ok
    \/ Shape(t) = <<first, second>> /\ th[t].trace[1].ok

TargetOf(fn) ==
    IF fn = "change_root" THEN [euid |-> ROOT, egid |-> ROOT]
    ELSE [euid |-> Hint(env.SUDO_UID), egid |-> Hint(env.SUDO_GID)]

\* thread t is back from a direct call of change_root() or change_user()
Switcher(t) == Returned(t) /\ th[t].fn \in {"change_root", "change_user"}

\* a returned error has not made the process effective root
NotNewlyRoot(t) ==
    th[t].res.tag = "Err" => ~(is_root(cred) /\ th[t].pre.euid # ROOT)

\* C17 as stated: when change_root() or change_user() returns, the effective
\* uid and gid are both those of the target identity or both those of before
\* the call, and a returned error has not made the process effective root.
C17_AllOrNothing ==
    \A t \in Threads :
        Switcher(t) =>
            /\ Eff(cred) \in {th[t].pre, TargetOf(th[t].fn)}
            /\ NotNewlyRoot(t)

\* C17 as the code has it: Ok leaves both ids at the target (or both
\* untouched when no call was needed); an error raised before or by the first
\* credential call leaves both untouched; an error of the second credential
\* call leaves the first one in effect, with no call made to undo it; and a
\* returned error has not made the process effective root.
C17_NoRollback ==
    \A t \in Threads :
        Switcher(t) =>
            LET n == Len(th[t].trace)
                target == TargetOf(th[t].fn)
            IN  /\ n \in 0..2
                /\ (th[t].res.tag = "Ok" /\ n = 0) => Eff(cred) = th[t].pre
                /\ (th[t].res.tag = "Ok" /\ n # 0) => (n = 2 /\ Eff(cred) = target)
                /\ (th[t].res.tag = "Err" /\ n < 2) => Eff(cred) = th[t].pre
                /\ (th[t].res.tag = "Err" /\ n = 2) =>
                       /\ th[t].trace[1].ok /\ ~th[t].trace[2].ok
                       /\ Eff(cred) = IF th[t].fn = "change_user"
                                      THEN [th[t].pre EXCEPT !.egid = target.egid]
                                      ELSE [th[t].pre EXCEPT !.euid = target.euid]
                /\ NotNewlyRoot(t)

C17_Witness ==
    /\ Switcher(1) /\ th[1].fn = "change_user" /\ th[1].res = Err("OsError")
    /\ Shape(1) = <<"setegid", "seteuid">>
    /\ th[1].pre = [euid |-> ROOT, egid |-> ROOT]
    /\ cred.euid = ROOT /\ cred.egid = GroupId

\* the hints with which no change_user() of an Elevated process can succeed:
\* one is absent or malformed, SUDO_UID is 0, or one is the id the OS refuses
CannotLower ==
    \/ Hint(env.SUDO_UID) \in {ParseErr, ROOT, U32Max}
    \/ Hint(env.SUDO_GID) \in {ParseErr, U32Max}

\* thread t is back from a *_user call it began Elevated under such hints
LowerFailed(t) ==
    Returned(t) /\ th[t].fn \in UserFns /\ th[t].pre.euid = ROOT /\ CannotLower

\* C18: with one thread making the calls, the inner operation of command_user,
\* read_user and write_user never runs while the effective uid is 0, and a
\* call whose change_user() failed has run nothing; the in-process inner
\* operation of command_root, read_root and write_root never runs while the
\* effective uid is not 0: when elevation is not possible the operation is run
\* by the helper or not at all.
C18_FailClosed ==
    \A t \in Threads :
        /\ th[t].fn \in UserFns =>
               /\ \A i \in OpsOf(t) : th[t].trace[i].euid # ROOT
               /\ LowerFailed(t) => (AttemptsOf(t) = {} /\ th[t].res.tag = "Err")
        /\ th[t].fn \in RootFns =>
               /\ \A i \in OpsOf(t) : th[t].trace[i].euid = ROOT
               /\ (Returned(t) /\ th[t].pre.euid # ROOT /\ cred.ruid # ROOT) =>
                      OpsOf(t) = {}

C18_Witness ==
    /\ LowerFailed(1) /\ th[1].fn = "write_user"
    /\ th[1].res = Err("ConfigError")
    /\ AttemptsOf(1) = {} /\ ~fs[th[1].path].exists

\* thread t's call has ended, rejected: a direct change_user() or a *_user
\* wrapper begun Elevated with a hint absent or malformed or SUDO_UID 0, or a
\* direct change_root() in a process whose real uid is not 0
Rejected(t) ==
    /\ Returned(t)
    /\ \/ /\ th[t].fn \in UserFns \cup {"change_user"}
          /\ th[t].pre.euid = ROOT /\ BadHints
       \/ th[t].fn = "change_root" /\ cred.ruid # ROOT

\* C19: a change_user() rejected for an absent or malformed hint or a SUDO_UID
\* of 0, and a change_root() rejected for a real uid other than 0, return
\* their error having issued no seteuid/setegid call, the effective uid and
\* gid being those of before the call.
C19_RejectedChangesNothing ==
    \A t \in Threads :
        Rejected(t) =>
            /\ th[t].res = Err(IF th[t].fn = "change_root"
                               THEN "PermissionDenied" ELSE "ConfigError")
            /\ th[t].trace = <<>>
            /\ Eff(cred) = th[t].pre

C19_Witness ==
    /\ Rejected(1) /\ th[1].fn = "change_user"
    /\ env.SUDO_UID = Var(Str0) /\ env.SUDO_GID = Var(StrPlusGroup)
    /\ th[1].res = Err("ConfigError") /\ th[1].trace = <<>>
    /\ cred.egid = ROOT /\ cred.euid = ROOT

=============================================================================
